---- MODULE Spec2Model ----
(***************************************************************************)
(* A model of goals.py, the command-line goal tracker: the persisted       *)
(* document (goal records plus the reserved "_user" profile record), the   *)
(* system clock, and one action per command of the CLI.                    *)
(*                                                                         *)
(* Strings the code inspects character by character (goal names, the log   *)
(* amount) are sequences of one-character strings.  A date string is a     *)
(* record [day, form]: day is the calendar day it denotes (a day number,   *)
(* day 1 being Monday 2024-01-01) and form is its spelling: "iso" is the   *)
(* zero-padded text str(date) produces, "short" is the same date without   *)
(* zero padding ("2024-1-5"), which strptime("%Y-%m-%d") also accepts, and *)
(* "bad" is a text strptime rejects.                                       *)
(***************************************************************************)
EXTENDS Integers, Sequences, FiniteSets, TLC

VARIABLES
    data,     \* the document: key -> record, as load_data returns / save_data writes it
    today,    \* datetime.date.today(), a day number
    out,      \* what the last command computed and printed
    steps     \* commands run so far in the modelled session

vars == <<data, today, out, steps>>

----------------------------------------------------------------------------
(* Bounds of the model *)

MaxDay == 3          \* the clock runs over days 1..MaxDay
MaxSteps == 3        \* commands run after the initial document of a session
NumGoals == 5        \* goals in the store of a daily-quest session
ExtraNames == 2      \* goal names a session's commands use, besides the first
SeedDays == 1        \* cmd_seed draws values for the last SeedDays days only
MaxLevel0 == 3       \* add_xp is called on profiles of level 1..MaxLevel0,
MaxXp0 == 110        \*   with xp 0..MaxXp0
MaxAmount == 250     \*   and an amount 0..MaxAmount
MaxCount == 8        \* get_color is called on counts -MaxCount..MaxCount
HeatmapDays == 7     \* the heatmap is drawn on the days 1..HeatmapDays

----------------------------------------------------------------------------
(* Strings *)

USER == <<"_", "u", "s", "e", "r">>

VALID_STATS == {"STR", "AGI", "INT", "VIT", "PER"}

\* str.lower() on the characters the model's names use
LowerChar(c) ==
    CASE c = "A" -> "a" [] c = "B" -> "b" [] c = "C" -> "c"
      [] c = "D" -> "d" [] c = "E" -> "e" [] c = "U" -> "u"
      [] OTHER -> c

Lower(s) == [i \in 1..Len(s) |-> LowerChar(s[i])]

\* str.upper() on the stat codes the model passes to add
Upper(s) ==
    CASE s = "str" -> "STR" [] s = "agi" -> "AGI" [] s = "int" -> "INT"
      [] s = "vit" -> "VIT" [] s = "per" -> "PER" [] s = "luk" -> "LUK"
      [] OTHER -> s

StartsWith(s, c) == Len(s) > 0 /\ s[1] = c

IsDigit(c) == c \in {"0", "1", "2", "3", "4", "5", "6", "7", "8", "9"}

DigitVal(c) ==
    CASE c = "0" -> 0 [] c = "1" -> 1 [] c = "2" -> 2 [] c = "3" -> 3
      [] c = "4" -> 4 [] c = "5" -> 5 [] c = "6" -> 6 [] c = "7" -> 7
      [] c = "8" -> 8 [] c = "9" -> 9

RECURSIVE DigitsVal(_)
DigitsVal(s) ==
    IF s = <<>> THEN 0
    ELSE 10 * DigitsVal(SubSeq(s, 1, Len(s) - 1)) + DigitVal(s[Len(s)])

\* int(text): an optional sign and at least one digit, else ValueError
IntOk(s) ==
    LET body == IF StartsWith(s, "+") \/ StartsWith(s, "-") THEN Tail(s) ELSE s
    IN  Len(body) > 0 /\ \A i \in 1..Len(body) : IsDigit(body[i])

IntOf(s) ==
    IF StartsWith(s, "-") THEN 0 - DigitsVal(Tail(s))
    ELSE IF StartsWith(s, "+") THEN DigitsVal(Tail(s))
    ELSE DigitsVal(s)

----------------------------------------------------------------------------
(* Dates *)

\* str(date)
Str(d) == [day |-> d, form |-> "iso"]

\* the same date written without zero padding
Short(d) == [day |-> d, form |-> "short"]

\* args.date when -d is not given
NoDate == [day |-> 0, form |-> "none"]

\* a -d text that is no date
BadDate == [day |-> 0, form |-> "bad"]

\* every -d text taken for a date
StrptimeOk_Any(s) == TRUE

\* datetime.strptime(text, "%Y-%m-%d") succeeds
StrptimeOk(s) == s.form \in {"iso", "short"}

\* datetime.strptime(text, "%Y-%m-%d").date()
Strptime(s) == s.day

\* dict.get(key, default)
Get(f, k, dflt) == IF k \in DOMAIN f THEN f[k] ELSE dflt

\* dict[key] = value
Put(f, k, v) == [x \in DOMAIN f \cup {k} |-> IF x = k THEN v ELSE f[x]]

\* del dict[key]
Del(f, k) == [x \in DOMAIN f \ {k} |-> f[x]]

EmptyMap == [x \in {} |-> 0]

----------------------------------------------------------------------------
(* Statistics *)

Max(a, b) == IF a >= b THEN a ELSE b

Min(a, b) == IF a <= b THEN a ELSE b

RECURSIVE SumValues(_)
\* sum(history.values())
SumValues(h) ==
    IF DOMAIN h = {} THEN 0
    ELSE LET k == CHOOSE k \in DOMAIN h : TRUE
         IN  h[k] + SumValues(Del(h, k))

RECURSIVE SortDays(_)
\* sorted([strptime(d).date() for d in keys]): one entry per key, so a day
\* stored under two spellings is listed twice
SortDays(keys) ==
    IF keys = {} THEN <<>>
    ELSE LET k == CHOOSE k \in keys : \A j \in keys : Strptime(k) <= Strptime(j)
         IN  <<Strptime(k)>> \o SortDays(keys \ {k})

\* dates = sorted([... for d in history if history[d] > 0])
PositiveDates(h) == SortDays({k \in DOMAIN h : h[k] > 0})

InSeq(x, s) == \E i \in 1..Len(s) : s[i] = x

RECURSIVE StreakBack(_, _)
\* the while True loop of the current streak: the days counted before check_date
StreakBack(dates, check_date) ==
    IF InSeq(check_date - 1, dates)
    THEN 1 + StreakBack(dates, check_date - 1)
    ELSE 0

\* a streak that ended yesterday is not counted
CurrentStreak_TodayOnly(dates, t) ==
    IF InSeq(t, dates) THEN 1 + StreakBack(dates, t) ELSE 0

\* if today in dates: ... elif yesterday in dates: ... else: 0
CurrentStreak(dates, t) ==
    IF InSeq(t, dates) THEN 1 + StreakBack(dates, t)
    ELSE IF InSeq(t - 1, dates) THEN 1 + StreakBack(dates, t - 1)
    ELSE 0

RECURSIVE LongestLoop(_, _, _, _)
\* for i in range(1, len(dates)): i is the 1-based index of dates[i]
LongestLoop(dates, i, temp_streak, longest_streak) ==
    IF i > Len(dates) THEN longest_streak
    ELSE LET temp == IF dates[i] = dates[i - 1] + 1 THEN temp_streak + 1 ELSE 1
         IN  LongestLoop(dates, i + 1, temp, Max(longest_streak, temp))

LongestStreak(dates) ==
    IF dates = <<>> THEN 0 ELSE LongestLoop(dates, 2, 1, 1)

\* calculate_stats(history) at clock t: current streak, longest streak, total
\* (the daily average and the best weekday are computed from the same
\* inputs, change nothing and are not modelled)
calculate_stats(h, t) ==
    IF DOMAIN h = {} THEN [cur |-> 0, longest |-> 0, total |-> 0]
    ELSE LET dates == PositiveDates(h)
             total == SumValues(h)
         IN  IF dates = <<>> THEN [cur |-> 0, longest |-> 0, total |-> total]
             ELSE [cur |-> CurrentStreak(dates, t),
                   longest |-> LongestStreak(dates),
                   total |-> total]

\* date.weekday(): Monday is 0; day 1 is a Monday
Weekday(d) == (d - 1) % 7

\* idx = (date.weekday() + 1) % 7: the days since the last Sunday
SinceSunday(d) == (Weekday(d) + 1) % 7

RECURSIVE WeekTotal(_, _, _)
\* for i in range(7): total += history.get(str(start + i), 0), from i on
WeekTotal(h, start, i) ==
    IF i >= 7 THEN 0
    ELSE Get(h, Str(start + i), 0) + WeekTotal(h, start, i + 1)

\* calculate_weekly_performance(history) at clock t
calculate_weekly_performance(h, t) ==
    LET start_this_week == t - SinceSunday(t)
        start_last_week == start_this_week - 7
    IN  [this_week |-> WeekTotal(h, start_this_week, 0),
         last_week |-> WeekTotal(h, start_last_week, 0)]

----------------------------------------------------------------------------
(* Heatmap *)

WEEKS_TO_SHOW == 52

\* count / max_count < num / den, for max_count # 0
RatioBelow(count, max_count, num, den) ==
    IF max_count > 0 THEN den * count < num * max_count
    ELSE den * count > num * max_count

\* the thresholds compared with <= instead of <
get_color_Inclusive(count, max_count) ==
    IF count = 0 THEN 0
    ELSE LET m == IF max_count = 0 THEN 1 ELSE max_count
         IN  IF RatioBelow(count, m, 1, 4) \/ 4 * count = m THEN 1
             ELSE IF RatioBelow(count, m, 1, 2) \/ 2 * count = m THEN 2
             ELSE IF RatioBelow(count, m, 3, 4) \/ 4 * count = 3 * m THEN 3
             ELSE 4

\* get_color(count, max_count): 0 for Colors.EMPTY, 1..4 for Colors.L1..L4
get_color(count, max_count) ==
    IF count = 0 THEN 0
    ELSE LET m == IF max_count = 0 THEN 1 ELSE max_count
         IN  IF RatioBelow(count, m, 1, 4) THEN 1
             ELSE IF RatioBelow(count, m, 1, 2) THEN 2
             ELSE IF RatioBelow(count, m, 3, 4) THEN 3
             ELSE 4

RECURSIVE MaxVal(_)
\* max_val = 0; for count in history.values(): if count > max_val: ...
MaxVal(h) ==
    IF DOMAIN h = {} THEN 0
    ELSE LET k == CHOOSE k \in DOMAIN h : TRUE
         IN  Max(h[k], MaxVal(Del(h, k)))

\* start_date = today - 52 weeks, then back to its Sunday
StartDate(t) ==
    LET start_date == t - 7 * WEEKS_TO_SHOW
    IN  start_date - SinceSunday(start_date)

RECURSIVE RowCells_NoBreak(_, _, _, _, _)
\* all 53 cells of the row, those after today too
RowCells_NoBreak(h, current_cell_date, week, t, max_val) ==
    IF week > WEEKS_TO_SHOW THEN <<>>
    ELSE <<<<current_cell_date,
             get_color(Get(h, Str(current_cell_date), 0), max_val)>>>>
         \o RowCells_NoBreak(h, current_cell_date + 7, week + 1, t, max_val)

RECURSIVE RowCells(_, _, _, _, _)
\* for week in range(WEEKS_TO_SHOW + 1): the cells of one row from week on;
\* a cell is the date it stands for and the bucket it is drawn in
RowCells(h, current_cell_date, week, t, max_val) ==
    IF week > WEEKS_TO_SHOW \/ current_cell_date > t THEN <<>>
    ELSE <<<<current_cell_date,
             get_color(Get(h, Str(current_cell_date), 0), max_val)>>>>
         \o RowCells(h, current_cell_date + 7, week + 1, t, max_val)

\* the grid print_heatmap draws under the stats bar: the rows Sun..Sat,
\* day_idx 0..6
Grid(h, t) ==
    [day_idx \in 0..6 |-> RowCells(h, StartDate(t) + day_idx, 0, t, MaxVal(h))]

----------------------------------------------------------------------------
(* Gamification *)

default_user ==
    [xp |-> 0, level |-> 1, badges |-> <<>>,
     stats |-> [s \in VALID_STATS |-> 10],
     daily_quests |-> EmptyMap]

IsGoalKey(k) == ~StartsWith(k, "_")

\* archived goals counted as well
ActiveGoals_All(d) == {k \in DOMAIN d : IsGoalKey(k)}

\* info.get("archived", False) is false
ActiveGoals(d) == {k \in DOMAIN d : IsGoalKey(k) /\ ~d[k].archived}

SetUser(d, u) == [d EXCEPT ![USER] = u]

\* a single if in place of the while: one level per call at most
LevelLoopOnce(u) ==
    IF u.xp >= u.level * 100
    THEN [u EXCEPT !.xp = u.xp - u.level * 100, !.level = u.level + 1]
    ELSE u

RECURSIVE LevelLoop(_)
\* while user["xp"] >= xp_needed: ...
LevelLoop(u) ==
    IF u.xp >= u.level * 100
    THEN LevelLoop([u EXCEPT !.xp = u.xp - u.level * 100, !.level = u.level + 1])
    ELSE u

\* the threshold of the new level subtracted instead of the one consumed
add_xp_NewThreshold(d, amount) ==
    LET u0 == [d[USER] EXCEPT !.xp = d[USER].xp + amount]
        u1 == IF u0.xp >= (u0.level + 1) * 100
              THEN [u0 EXCEPT !.xp = u0.xp - (u0.level + 1) * 100,
                              !.level = u0.level + 1]
              ELSE u0
    IN  [data |-> SetUser(d, u1), leveled_up |-> u1.level > u0.level]

\* add_xp(data, amount): the document after it and the value it returns
add_xp(d, amount) ==
    LET u0 == [d[USER] EXCEPT !.xp = d[USER].xp + amount]
        u1 == LevelLoop(u0)
    IN  [data |-> SetUser(d, u1), leveled_up |-> u1.level > u0.level]

\* the XP a profile has collected in all: the thresholds 100, 200, ...,
\* (level-1)*100 it consumed, plus xp
TotalXp(u) == 50 * u.level * (u.level - 1) + u.xp

\* the badge appended whether or not it is owned
unlock_badge_Always(d, badge_name) ==
    SetUser(d, [d[USER] EXCEPT !.badges = Append(d[USER].badges, badge_name)])

\* unlock_badge(data, badge_name)
unlock_badge(d, badge_name) ==
    IF ~InSeq(badge_name, d[USER].badges)
    THEN SetUser(d, [d[USER] EXCEPT !.badges = Append(d[USER].badges, badge_name)])
    ELSE d

UnlockIf(cond, d, badge_name) == IF cond THEN unlock_badge(d, badge_name) ELSE d

\* the total milestones tested with > instead of >=
check_achievements_Strict(d, goal_name, t) ==
    LET st == calculate_stats(d[goal_name].history, t)
        d1 == UnlockIf(st.total > 0, d, "The Player (Awakened)")
        d2 == UnlockIf(st.total > 100, d1, "Igris (100 Total)")
        d3 == UnlockIf(st.total > 500, d2, "Tank (500 Total)")
        d4 == UnlockIf(st.total > 1000, d3, "Beru (1K Total)")
        d5 == UnlockIf(st.total > 5000, d4, "Bellion (5K Total)")
        d6 == UnlockIf(st.cur >= 3, d5, "Heating Up (3 Day Streak)")
        d7 == UnlockIf(st.cur >= 7, d6, "False Ranker (7 Day Streak)")
        d8 == UnlockIf(st.cur >= 30, d7, "Monarch (30 Day Streak)")
    IN  UnlockIf(Cardinality(ActiveGoals(d)) >= 3, d8, "Necromancer (3 Active Goals)")

\* check_achievements(data, goal_name) at clock t
check_achievements(d, goal_name, t) ==
    LET st == calculate_stats(d[goal_name].history, t)
        d1 == UnlockIf(st.total > 0, d, "The Player (Awakened)")
        d2 == UnlockIf(st.total >= 100, d1, "Igris (100 Total)")
        d3 == UnlockIf(st.total >= 500, d2, "Tank (500 Total)")
        d4 == UnlockIf(st.total >= 1000, d3, "Beru (1K Total)")
        d5 == UnlockIf(st.total >= 5000, d4, "Bellion (5K Total)")
        d6 == UnlockIf(st.cur >= 3, d5, "Heating Up (3 Day Streak)")
        d7 == UnlockIf(st.cur >= 7, d6, "False Ranker (7 Day Streak)")
        d8 == UnlockIf(st.cur >= 30, d7, "Monarch (30 Day Streak)")
    IN  UnlockIf(Cardinality(ActiveGoals(d)) >= 3, d8, "Necromancer (3 Active Goals)")

\* the counting loop of check_daily_quest
GoalsLoggedToday(d, t) ==
    Cardinality({k \in ActiveGoals(d) : Get(d[k].history, Str(t), 0) > 0})

\* the bonus paid whenever 4 goals are logged, daily_quests not consulted
check_daily_quest_NoMemory(d, t) ==
    IF GoalsLoggedToday(d, t) = 4
    THEN [data |-> SetUser(d, [d[USER] EXCEPT
                       !.daily_quests = Put(d[USER].daily_quests, Str(t), TRUE)]),
          bonus |-> 50]
    ELSE [data |-> d, bonus |-> 0]

\* check_daily_quest(data) at clock t: the document after it and the bonus
check_daily_quest(d, t) ==
    IF GoalsLoggedToday(d, t) = 4 /\ Get(d[USER].daily_quests, Str(t), FALSE) # TRUE
    THEN [data |-> SetUser(d, [d[USER] EXCEPT
                       !.daily_quests = Put(d[USER].daily_quests, Str(t), TRUE)]),
          bonus |-> 50]
    ELSE [data |-> d, bonus |-> 0]

----------------------------------------------------------------------------
(* Commands: each is the document after the command and what it printed *)

Result(d, o) == [data |-> d, out |-> o]

\* a command that printed a message and returned before any assignment
Rejected(d, cmd, why) == Result(d, [cmd |-> cmd, status |-> why])

NoOut == [cmd |-> "none", status |-> "none"]

\* the stats bar of print_heatmap(name, goal_data)
print_heatmap(goal_data, t) ==
    LET st == calculate_stats(goal_data.history, t)
        wk == calculate_weekly_performance(goal_data.history, t)
    IN  [cur_streak |-> st.cur, max_streak |-> st.longest, total |-> st.total,
         this_week |-> wk.this_week, last_week |-> wk.last_week]

\* an archived goal added again is created afresh
cmd_add_Recreate(args, d, t) ==
    LET name == Lower(args.name)
        unit == args.unit
        stat == Upper(args.stat)
    IN  IF StartsWith(name, "_") THEN Rejected(d, "add", "reserved")
        ELSE IF stat # "" /\ stat \notin VALID_STATS
        THEN Rejected(d, "add", "invalid_stat")
        ELSE IF name \in DOMAIN d
        THEN IF d[name].archived
             THEN Result([d EXCEPT ![name] =
                             [created |-> Str(t), history |-> EmptyMap,
                              archived |-> FALSE, unit |-> unit, stat |-> stat]],
                         [cmd |-> "add", status |-> "restored", name |-> name])
             ELSE Result(d, [cmd |-> "add", status |-> "exists", name |-> name])
        ELSE Result(Put(d, name, [created |-> Str(t), history |-> EmptyMap,
                                  archived |-> FALSE, unit |-> unit, stat |-> stat]),
                    [cmd |-> "add", status |-> "added", name |-> name])

\* cmd_add(args, data)
cmd_add(args, d, t) ==
    LET name == Lower(args.name)
        unit == args.unit
        stat == Upper(args.stat)
    IN  IF StartsWith(name, "_") THEN Rejected(d, "add", "reserved")
        ELSE IF stat # "" /\ stat \notin VALID_STATS
        THEN Rejected(d, "add", "invalid_stat")
        ELSE IF name \in DOMAIN d
        THEN IF d[name].archived
             THEN Result([d EXCEPT ![name] =
                             [@ EXCEPT !.archived = FALSE,
                                       !.unit = IF unit # "" THEN unit ELSE @,
                                       !.stat = IF stat # "" THEN stat ELSE @]],
                         [cmd |-> "add", status |-> "restored", name |-> name])
             ELSE Result(d, [cmd |-> "add", status |-> "exists", name |-> name])
        ELSE Result(Put(d, name, [created |-> Str(t), history |-> EmptyMap,
                                  archived |-> FALSE, unit |-> unit, stat |-> stat]),
                    [cmd |-> "add", status |-> "added", name |-> name])

\* the streak bonus without its cap
StreakBonus_Uncapped(cur_streak) ==
    IF cur_streak > 1 THEN cur_streak * 2 ELSE 0

\* if cur_streak > 1: streak_bonus = min(cur_streak * 2, 20)
StreakBonus(cur_streak) ==
    IF cur_streak > 1 THEN Min(cur_streak * 2, 20) ELSE 0

\* the stat raised by 2
IncreaseStat_Twice(d, stat_name) ==
    IF stat_name # ""
    THEN SetUser(d, [d[USER] EXCEPT !.stats[stat_name] = @ + 2])
    ELSE d

\* stat_name = data[name].get("stat"); if stat_name: stats[stat_name] += 1
IncreaseStat(d, stat_name) ==
    IF stat_name # ""
    THEN SetUser(d, [d[USER] EXCEPT !.stats[stat_name] = @ + 1])
    ELSE d

\* the if amount_delta > 0 block of cmd_log, on the document d1 that already
\* holds the new amount
Rewards(d1, name, log_date, t) ==
    LET cur_streak == calculate_stats(d1[name].history, t).cur
        streak_bonus == StreakBonus(cur_streak)
        quest == IF log_date = Str(t) THEN check_daily_quest(d1, t)
                 ELSE [data |-> d1, bonus |-> 0]
        xp_gain == 10 + streak_bonus + quest.bonus
        d2 == quest.data
        d3 == IncreaseStat(d2, d2[name].stat)
        xp == add_xp(d3, xp_gain)
    IN  [data |-> check_achievements(xp.data, name, t),
         cur_streak |-> cur_streak, streak_bonus |-> streak_bonus,
         quest_bonus |-> quest.bonus, xp_gain |-> xp_gain,
         leveled_up |-> xp.leveled_up]

\* rewards also for a log that changes nothing
RewardDue_NotNegative(amount_delta) == amount_delta >= 0

\* if amount_delta > 0:
RewardDue(amount_delta) == amount_delta > 0

\* cmd_log(args, data)
cmd_log(args, d, t) ==
    LET name == Lower(args.name)
    IN  IF name \notin DOMAIN d \/ StartsWith(name, "_")
        THEN Rejected(d, "log", "not_found")
        ELSE IF args.date # NoDate /\ ~StrptimeOk(args.date)
        THEN Rejected(d, "log", "invalid_date")
        ELSE IF ~IntOk(args.amount) THEN Rejected(d, "log", "invalid_amount")
        ELSE
        LET log_date == IF args.date # NoDate THEN args.date ELSE Str(t)
            current == Get(d[name].history, log_date, 0)
            signed == StartsWith(args.amount, "+") \/ StartsWith(args.amount, "-")
            amount_delta == IF signed THEN IntOf(args.amount)
                            ELSE IntOf(args.amount) - current
            new_amount == IF signed THEN current + IntOf(args.amount)
                          ELSE IntOf(args.amount)
            d1 == [d EXCEPT ![name].history = Put(@, log_date, new_amount)]
            rw == IF RewardDue(amount_delta) THEN Rewards(d1, name, log_date, t)
                  ELSE [data |-> d1, cur_streak |-> 0, streak_bonus |-> 0,
                        quest_bonus |-> 0, xp_gain |-> 0, leveled_up |-> FALSE]
        IN  Result(rw.data,
                   [cmd |-> "log", status |-> "ok", name |-> name,
                    amount |-> args.amount,
                    log_date |-> log_date, amount_delta |-> amount_delta,
                    new_amount |-> new_amount, xp_gain |-> rw.xp_gain,
                    streak_bonus |-> rw.streak_bonus,
                    quest_bonus |-> rw.quest_bonus,
                    leveled_up |-> rw.leveled_up,
                    shown |-> [k \in {name} |-> print_heatmap(rw.data[k], t)]])

\* delete without the test of the reserved prefix
cmd_delete_AnyKey(args, d) ==
    LET name == Lower(args.name)
    IN  IF name \notin DOMAIN d
        THEN Rejected(d, "delete", "not_found")
        ELSE IF Lower(args.confirm) = <<"y">>
        THEN Result(Del(d, name), [cmd |-> "delete", status |-> "deleted"])
        ELSE Result(d, [cmd |-> "delete", status |-> "cancelled"])

\* cmd_delete(args, data); confirm is the answer typed at the prompt
cmd_delete(args, d) ==
    LET name == Lower(args.name)
    IN  IF name \notin DOMAIN d \/ StartsWith(name, "_")
        THEN Rejected(d, "delete", "not_found")
        ELSE IF Lower(args.confirm) = <<"y">>
        THEN Result(Del(d, name), [cmd |-> "delete", status |-> "deleted"])
        ELSE Result(d, [cmd |-> "delete", status |-> "cancelled"])

\* cmd_archive(args, data)
cmd_archive(args, d) ==
    LET name == Lower(args.name)
    IN  IF name \notin DOMAIN d \/ StartsWith(name, "_")
        THEN Rejected(d, "archive", "not_found")
        ELSE Result([d EXCEPT ![name].archived = TRUE],
                    [cmd |-> "archive", status |-> "ok"])

\* restoring a goal pays 10 XP
cmd_restore_Rewarded(args, d) ==
    LET name == Lower(args.name)
    IN  IF name \notin DOMAIN d \/ StartsWith(name, "_")
        THEN Rejected(d, "restore", "not_found")
        ELSE Result(add_xp([d EXCEPT ![name].archived = FALSE], 10).data,
                    [cmd |-> "restore", status |-> "ok"])

\* cmd_restore(args, data)
cmd_restore(args, d) ==
    LET name == Lower(args.name)
    IN  IF name \notin DOMAIN d \/ StartsWith(name, "_")
        THEN Rejected(d, "restore", "not_found")
        ELSE Result([d EXCEPT ![name].archived = FALSE],
                    [cmd |-> "restore", status |-> "ok"])

\* the goals the list comprehensions of cmd_show, cmd_list, cmd_list_archives keep
ArchivedGoals(d) == {k \in DOMAIN d : IsGoalKey(k) /\ d[k].archived}

\* cmd_show(args, data); args.name is <<>> when no name is given
cmd_show(args, d, t) ==
    IF Cardinality(DOMAIN d) <= 1 THEN Rejected(d, "show", "no_goals")
    ELSE IF args.name # <<>>
    THEN LET name == Lower(args.name)
         IN  IF name \notin DOMAIN d \/ StartsWith(name, "_")
             THEN Rejected(d, "show", "not_found")
             ELSE Result(d, [cmd |-> "show", status |-> "ok",
                             shown |-> [k \in {name} |-> print_heatmap(d[k], t)]])
    ELSE IF ActiveGoals(d) = {} THEN Rejected(d, "show", "no_active")
    ELSE Result(d, [cmd |-> "show", status |-> "ok",
                    shown |-> [k \in ActiveGoals(d) |-> print_heatmap(d[k], t)]])

\* cmd_list(args, data)
cmd_list(d) == Result(d, [cmd |-> "list", status |-> "ok", names |-> ActiveGoals(d)])

\* cmd_list_archives(args, data)
cmd_list_archives(d) ==
    Result(d, [cmd |-> "archives", status |-> "ok", names |-> ArchivedGoals(d)])

\* cmd_profile(args, data): the level, and the progress bar's fraction xp / xp_next
cmd_profile(d) ==
    Result(d, [cmd |-> "profile", status |-> "ok", level |-> d[USER].level,
               xp |-> d[USER].xp, xp_next |-> d[USER].level * 100,
               badges |-> d[USER].badges, stats |-> d[USER].stats])

\* cmd_seed(args, data); picks[i] is the value drawn for the day i days ago,
\* 0 when random.random() > 0.3 fails for that day
cmd_seed(picks, d, t) ==
    LET chosen == {i \in DOMAIN picks : picks[i] > 0}
        history == [k \in {Str(t - i) : i \in chosen} |-> picks[t - k.day]]
    IN  Result(Put(d, <<"d", "e", "m", "o">>,
                   [created |-> Str(t), history |-> history, archived |-> FALSE,
                    unit |-> "points", stat |-> "INT"]),
               [cmd |-> "seed", status |-> "ok"])

----------------------------------------------------------------------------
(* Actions: one run of the program per step *)

\* main(): load_data, the command, save_data
Run(r) ==
    /\ steps < MaxSteps
    /\ data' = r.data
    /\ out' = r.out
    /\ steps' = steps + 1
    /\ UNCHANGED today

CmdAdd(args) == Run(cmd_add(args, data, today))

CmdLog(args) == Run(cmd_log(args, data, today))

CmdDelete(args) == Run(cmd_delete(args, data))

CmdArchive(args) == Run(cmd_archive(args, data))

CmdRestore(args) == Run(cmd_restore(args, data))

CmdSeed(picks) == Run(cmd_seed(picks, data, today))

CmdShow(args) == Run(cmd_show(args, data, today))

CmdList == Run(cmd_list(data))

CmdListArchives == Run(cmd_list_archives(data))

CmdProfile == Run(cmd_profile(data))

\* midnight passes between two runs
Tick ==
    /\ today < MaxDay
    /\ today' = today + 1
    /\ out' = NoOut
    /\ UNCHANGED <<data, steps>>

----------------------------------------------------------------------------
(* Documents earlier sessions left in the data file: a script of commands *)
(* run from the empty store                                               *)

Add(n, s) == [op |-> "add", args |-> [name |-> n, unit |-> "", stat |-> s]]

Log(n, a, dt) == [op |-> "log", args |-> [name |-> n, amount |-> a, date |-> dt]]

Archive(n) == [op |-> "archive", args |-> [name |-> n]]

Midnight == [op |-> "tick"]

Exec(c, st) ==
    IF c.op = "add"
    THEN [st EXCEPT !.data = cmd_add(c.args, st.data, st.today).data]
    ELSE IF c.op = "log"
    THEN [st EXCEPT !.data = cmd_log(c.args, st.data, st.today).data]
    ELSE IF c.op = "archive"
    THEN [st EXCEPT !.data = cmd_archive(c.args, st.data).data]
    ELSE [st EXCEPT !.today = st.today + 1]

RECURSIVE Replay(_, _)
Replay(script, st) ==
    IF script = <<>> THEN st
    ELSE Replay(Tail(script), Exec(Head(script), st))

\* load_data() when the data file does not exist
EmptyStore == [k \in {USER} |-> default_user]

\* the document and the clock after the script, started on day 1
After(script) == Replay(script, [data |-> EmptyStore, today |-> 1])

\* the program starts on the store a script left
StartsAfter(scripts) ==
    /\ \E sc \in scripts :
          LET st == After(sc) IN data = st.data /\ today = st.today
    /\ out = NoOut
    /\ steps = 0

----------------------------------------------------------------------------
(* Sessions from an empty store, and from a store 10 XP short of level 2 *)

(* Arguments of the commands *)

Letters == <<"a", "b", "c", "d", "e", "f", "g">>

GoalName(i) == <<Letters[i]>>

Plus1 == <<"+", "1">>

Minus1 == <<"-", "1">>

\* the outcomes of cmd_seed the model draws: a value 0 (no entry) or 1 for
\* each of the last SeedDays days
SeedPicks == [0..(SeedDays - 1) -> {0, 1}]

\* add goal a with stat STR and log +1 on n days of the past, no two adjacent
XpScript(n) ==
    <<Add(<<"a">>, "str")>>
    \o [i \in 1..n |-> Log(<<"a">>, Plus1, Str(0 - 2 * i))]

Names == {<<"a">>, <<"B">>}

AmountArgs == {Plus1, Minus1, <<"2">>}

DateArgs == {NoDate, Short(1)}

Init == StartsAfter({<<>>, XpScript(9)})

Next ==
    \/ \E n \in Names, s \in {"", "int"} :
          CmdAdd([name |-> n, unit |-> "", stat |-> s])
    \/ \E n \in Names, a \in AmountArgs, dt \in DateArgs :
          CmdLog([name |-> n, amount |-> a, date |-> dt])
    \/ \E n \in Names : CmdDelete([name |-> n, confirm |-> <<"y">>])
    \/ \E n \in Names : CmdArchive([name |-> n])
    \/ \E n \in Names : CmdRestore([name |-> n])
    \/ CmdShow([name |-> <<>>])
    \/ CmdList
    \/ CmdListArchives
    \/ CmdProfile
    \/ \E picks \in SeedPicks : CmdSeed(picks)
    \/ Tick

Spec == Init /\ [][Next]_vars

\* the step is a run of log that got past its checks
LogStep == steps' = steps + 1 /\ out'.cmd = "log" /\ out'.status = "ok"

\* C16: add on a name that exists never creates the record anew: when the
\* record is archived, add makes it active and leaves its history and its
\* created date as they were, and every other record too; when the record
\* is active, add leaves the whole document as it was.
C16_AddKeepsRecord ==
    [][(/\ steps' = steps + 1
        /\ out'.cmd = "add"
        /\ out'.status \in {"added", "restored", "exists"}
        /\ out'.name \in DOMAIN data)
       => IF data[out'.name].archived
          THEN /\ DOMAIN data' = DOMAIN data
               /\ data'[out'.name].archived = FALSE
               /\ data'[out'.name].history = data[out'.name].history
               /\ data'[out'.name].created = data[out'.name].created
               /\ \A k \in DOMAIN data \ {out'.name} : data'[k] = data[k]
          ELSE data' = data]_vars

\* an archived goal with 9 logged days is active again after add, on a later day
C16_Witness ==
    /\ out.cmd = "add" /\ out.status = "restored"
    /\ today > 1
    /\ ~data[out.name].archived
    /\ Cardinality(DOMAIN data[out.name].history) = 9
    /\ data[out.name].created = Str(1)
    /\ data[out.name].stat = "INT"

\* C17: a positive-delta log on a goal with a stat code raises that stat of
\* the profile by 1 and leaves the other four as they were; on a goal
\* without stat code it leaves all five as they were.  Every stat is >= 10
\* in every state and no step lowers a stat.
C17_StatsGrowByOne ==
    /\ [][(LogStep /\ out'.amount_delta > 0) =>
             \A c \in VALID_STATS :
                data'[USER].stats[c] =
                   data[USER].stats[c] + (IF data[out'.name].stat = c THEN 1 ELSE 0)]_vars
    /\ [](\A c \in VALID_STATS : data[USER].stats[c] >= 10)
    /\ [][\A c \in VALID_STATS : data'[USER].stats[c] >= data[USER].stats[c]]_vars

\* logs on a goal with INT and on a goal with STR have raised both stats
C17_Witness ==
    /\ out.cmd = "log" /\ out.status = "ok" /\ out.amount_delta > 0
    /\ data[USER].stats["INT"] = 11
    /\ data[USER].stats["STR"] = 19
    /\ data[USER].stats["AGI"] = 10

\* C20: only log changes the profile: a run of add, archive, restore,
\* delete, show, list, archives or profile leaves the "_user" record as it
\* was, and a run of show, list, archives or profile leaves the whole
\* document as it was.
C20_OnlyLogChangesProfile ==
    /\ [][(/\ steps' = steps + 1
           /\ out'.cmd \in {"add", "archive", "restore", "delete", "show",
                            "list", "archives", "profile"})
          => data'[USER] = data[USER]]_vars
    /\ [][(/\ steps' = steps + 1
           /\ out'.cmd \in {"show", "list", "archives", "profile"})
          => data' = data]_vars

\* the goal that earned the XP and the badge is deleted, the profile keeps both
C20_Witness ==
    /\ out.cmd = "delete" /\ out.status = "deleted"
    /\ DOMAIN data = {USER}
    /\ data[USER].xp > 0
    /\ data[USER].badges # <<>>

\* C23: a signed amount +n or -n stores the previous value plus n or minus
\* n and has that signed number as its delta; an unsigned amount n stores n
\* and has n minus the previous value as its delta; the delta decides the
\* reward.  So the same unsigned log, on the same goal and date, run a
\* second time leaves the whole document as it was.
C23_AmountForms ==
    [][LogStep =>
          LET previous == Get(data[out'.name].history, out'.log_date, 0)
              signed == out'.amount[1] \in {"+", "-"}
          IN  /\ out'.amount = Plus1 =>
                    (out'.new_amount = previous + 1 /\ out'.amount_delta = 1)
              /\ out'.amount = Minus1 =>
                    (out'.new_amount = previous - 1 /\ out'.amount_delta = 0 - 1)
              /\ out'.amount = <<"2">> =>
                    (out'.new_amount = 2 /\ out'.amount_delta = 2 - previous)
              /\ data'[out'.name].history[out'.log_date] = out'.new_amount
              /\ (out'.amount_delta > 0) <=> (out'.xp_gain > 0)
              /\ (/\ ~signed
                  /\ out.cmd = "log" /\ out.status = "ok"
                  /\ out.name = out'.name
                  /\ out.log_date = out'.log_date
                  /\ out.amount = out'.amount)
                 => data' = data]_vars

\* the log "2" run twice: the second run has delta 0 and pays nothing
C23_Witness ==
    /\ out.cmd = "log" /\ out.status = "ok" /\ out.amount = <<"2">>
    /\ steps >= 2
    /\ out.amount_delta = 0 /\ out.new_amount = 2 /\ out.xp_gain = 0
    /\ DOMAIN data[out.name].history = {out.log_date}
    /\ data[USER].xp = 10

\* C5: from the default profile, whatever the commands: level >= 1 and
\* 0 <= xp < level*100, so the fraction the profile view shows is in [0,1),
\* and the level never decreases.
C5_ProfileInvariant ==
    /\ [](/\ data[USER].level >= 1
          /\ data[USER].xp >= 0
          /\ data[USER].xp < data[USER].level * 100
          /\ out.cmd = "profile" =>
                (out.xp >= 0 /\ out.xp < out.xp_next /\ out.xp_next > 0))
    /\ [][data'[USER].level >= data[USER].level]_vars

\* the profile view of a profile that has levelled up
C5_Witness ==
    /\ out.cmd = "profile"
    /\ out.level = 2
    /\ out.xp_next = 200

\* C6: a log whose net delta is <= 0 grants no rewards: the whole profile
\* record (xp, level, stats, badges, daily_quests) is unchanged, and the new
\* value, the previous one plus the delta, is stored in the goal's history
\* for the log date.
C6_NoRewardFrame ==
    [][(LogStep /\ out'.amount_delta <= 0) =>
          /\ data'[USER] = data[USER]
          /\ out'.new_amount
                = Get(data[out'.name].history, out'.log_date, 0) + out'.amount_delta
          /\ out'.log_date \in DOMAIN data'[out'.name].history
          /\ data'[out'.name].history[out'.log_date] = out'.new_amount
          /\ out'.xp_gain = 0]_vars

\* an absolute set to the value already stored, on a profile that holds XP
C6_Witness ==
    /\ out.cmd = "log" /\ out.status = "ok"
    /\ out.amount_delta = 0
    /\ out.new_amount = 2
    /\ data[out.name].history[out.log_date] = 2
    /\ data[USER].xp > 0

----------------------------------------------------------------------------
(* Sessions around the daily quest: NumGoals goals, some already logged *)

\* add every goal, log +1 on the first k1 of them on day 1 and, when k2 > 0,
\* on the first k2 of them on day 2
QuestScript(k1, k2) ==
    [i \in 1..NumGoals |-> Add(GoalName(i), "")]
    \o [i \in 1..k1 |-> Log(GoalName(i), Plus1, NoDate)]
    \o (IF k2 > 0
        THEN <<Midnight>> \o [i \in 1..k2 |-> Log(GoalName(i), Plus1, NoDate)]
        ELSE <<>>)

\* log +1 on goal n on each of the r days before day 1, oldest first
RunScript(n, r) == [i \in 1..r |-> Log(n, Plus1, Str(i - r))]

\* the fourth goal comes with a streak of 9 days that ended yesterday
QuestScripts ==
    {QuestScript(3, 0), QuestScript(4, 0), QuestScript(4, 3),
     QuestScript(3, 0) \o RunScript(GoalName(4), 9)}

InitQuest == StartsAfter(QuestScripts)

\* the commands name the first goal, logged in every such store, and the
\* last ones, logged in none
QuestNames == {GoalName(1)} \cup {GoalName(3 + i) : i \in 1..ExtraNames}

QuestDates == {NoDate, Short(1)}

NextQuest ==
    \/ \E n \in QuestNames : CmdAdd([name |-> n, unit |-> "", stat |-> ""])
    \/ \E n \in QuestNames, a \in {Plus1, Minus1}, dt \in QuestDates :
          CmdLog([name |-> n, amount |-> a, date |-> dt])
    \/ \E n \in QuestNames : CmdDelete([name |-> n, confirm |-> <<"y">>])
    \/ \E n \in QuestNames : CmdArchive([name |-> n])
    \/ \E n \in QuestNames : CmdRestore([name |-> n])
    \/ Tick

SpecQuest == InitQuest /\ [][NextQuest]_vars

\* the profile's daily_quests holds true for day t
QuestDone(d, t) == Get(d[USER].daily_quests, Str(t), FALSE) = TRUE

\* the non-archived goals with a value > 0 stored for calendar day t
PositiveOn(d, t) ==
    {k \in ActiveGoals(d) :
        \E key \in DOMAIN d[k].history :
            Strptime(key) = t /\ d[k].history[key] > 0}

\* C1: a log awards the +50 daily-quest bonus and sets daily_quests[today]
\* if and only if its net delta is > 0, its date is today, after the update
\* exactly 4 non-archived goals have a value > 0 stored for today, and
\* daily_quests[today] was not already true.
C1_QuestIff ==
    [][LogStep =>
        ((out'.quest_bonus = 50 /\ QuestDone(data', today) /\ ~QuestDone(data, today))
         <=> (/\ out'.amount_delta > 0
              /\ Strptime(out'.log_date) = today
              /\ Cardinality(PositiveOn(data', today)) = 4
              /\ ~QuestDone(data, today)))]_vars

\* C1 for logs whose date is spelled the way str(date) spells it, on
\* documents that hold no other spelling of today: the bonus is awarded
\* exactly under the four conditions
C1_IsoSpelling ==
    [][(LogStep /\ out'.log_date.form = "iso"
          /\ \A k \in DOMAIN data' : IsGoalKey(k) => Short(today) \notin DOMAIN data'[k].history)
        =>
        ((out'.quest_bonus = 50 /\ QuestDone(data', today) /\ ~QuestDone(data, today))
         <=> (/\ out'.amount_delta > 0
              /\ Strptime(out'.log_date) = today
              /\ Cardinality(PositiveOn(data', today)) = 4
              /\ ~QuestDone(data, today)))]_vars

\* C2: the bonus is granted at most once for each calendar date: a log is
\* paid the 50 XP only when daily_quests held nothing for today before it,
\* it then records today, and no step ever removes or resets an entry of
\* daily_quests.
C2_OncePerDate ==
    [][/\ \A k \in DOMAIN data[USER].daily_quests :
             k \in DOMAIN data'[USER].daily_quests
             /\ data'[USER].daily_quests[k] = data[USER].daily_quests[k]
       /\ \A k \in DOMAIN data'[USER].daily_quests :
             data'[USER].daily_quests[k] = TRUE
       /\ LogStep /\ out'.quest_bonus > 0 =>
             /\ out'.quest_bonus = 50
             /\ ~QuestDone(data, today)
             /\ QuestDone(data', today)
       /\ (TotalXp(data'[USER]) >= TotalXp(data[USER]) + 50
              /\ steps' = steps + 1) => ~QuestDone(data, today)
      ]_vars

\* a log on a day whose bonus was already paid, with exactly 4 active goals
\* positive again after the count had left 4
C2_Witness ==
    /\ out.cmd = "log" /\ out.status = "ok"
    /\ out.log_date = Str(today)
    /\ out.amount_delta = 1 /\ out.new_amount = 1
    /\ out.name \in ActiveGoals(data)
    /\ GoalsLoggedToday(data, today) = 4
    /\ QuestDone(data, today)
    /\ out.quest_bonus = 0

\* C7: the XP a positive-delta log passes to add_xp is 10 + the streak
\* bonus + the quest bonus: with s the goal's current streak on the history
\* that holds the logged value, the streak bonus is min(2*s, 20) if s > 1
\* and 0 otherwise, and the quest bonus is 50 if this log newly completes
\* the daily quest and 0 otherwise; that sum is what the profile gains.
C7_XpOfLog ==
    [][(LogStep /\ out'.amount_delta > 0) =>
          LET s == calculate_stats(data'[out'.name].history, today).cur
              streakBonus == IF s > 1 THEN (IF 2 * s < 20 THEN 2 * s ELSE 20) ELSE 0
              questBonus == IF QuestDone(data', today) /\ ~QuestDone(data, today)
                            THEN 50 ELSE 0
          IN  /\ out'.xp_gain = 10 + streakBonus + questBonus
              /\ TotalXp(data'[USER]) = TotalXp(data[USER]) + out'.xp_gain]_vars

\* the log that brings a streak to 11 days
C7_Witness ==
    /\ out.cmd = "log" /\ out.status = "ok" /\ out.amount_delta > 0
    /\ out.shown[out.name].cur_streak = 11
    /\ out.xp_gain = 30

\* C22: one log raises the level by at most 1: the XP it awards is at most
\* 80, the 10 of the base, a streak bonus of at most 20 and a quest bonus of
\* at most 50, and a profile with xp < level*100 does not cross two
\* thresholds with 80 XP.
C22_OneLevelPerLog ==
    [][LogStep =>
          /\ out'.streak_bonus <= 20
          /\ out'.quest_bonus <= 50
          /\ out'.xp_gain <= 80
          /\ TotalXp(data'[USER]) - TotalXp(data[USER]) <= 80
          /\ data'[USER].level <= data[USER].level + 1]_vars

\* the log that completes the daily quest takes the profile to level 2
C22_Witness ==
    /\ out.cmd = "log" /\ out.status = "ok"
    /\ out.quest_bonus = 50 /\ out.xp_gain = 60
    /\ out.leveled_up
    /\ data[USER].level = 2 /\ data[USER].xp = 0

----------------------------------------------------------------------------
(* Sessions around the badges: goal a with a streak that ended yesterday, *)
(* goal b without history                                                 *)

BadgeScript(r) ==
    <<Add(<<"a">>, ""), Add(<<"b">>, "")>> \o RunScript(<<"a">>, r)

BadgeScripts == {BadgeScript(1), BadgeScript(5), BadgeScript(28)}

BadgeNames == {<<"a">>, <<"b">>, <<"c">>}

\* one below each total milestone
BadgeAmounts ==
    {Plus1, Minus1, <<"9", "9">>, <<"4", "9", "9">>, <<"9", "9", "9">>,
     <<"4", "9", "9", "9">>}

InitBadges == StartsAfter(BadgeScripts)

NextBadges ==
    \/ \E n \in BadgeNames : CmdAdd([name |-> n, unit |-> "", stat |-> ""])
    \/ \E n \in BadgeNames, a \in BadgeAmounts :
          CmdLog([name |-> n, amount |-> a, date |-> NoDate])
    \/ \E n \in BadgeNames : CmdDelete([name |-> n, confirm |-> <<"y">>])
    \/ \E n \in BadgeNames : CmdArchive([name |-> n])
    \/ \E n \in BadgeNames : CmdRestore([name |-> n])
    \/ Tick

SpecBadges == InitBadges /\ [][NextBadges]_vars

BadgeSet(d) == {d[USER].badges[i] : i \in 1..Len(d[USER].badges)}

\* C8: badges are only ever appended: a badge held is never removed, the
\* badges held keep their positions, and no badge appears twice.
C8_BadgesAppendOnly ==
    [][/\ Len(data'[USER].badges) >= Len(data[USER].badges)
       /\ \A i \in 1..Len(data[USER].badges) :
             data'[USER].badges[i] = data[USER].badges[i]
       /\ \A i, j \in 1..Len(data'[USER].badges) :
             data'[USER].badges[i] = data'[USER].badges[j] => i = j]_vars

\* the 100-total badge is held although the goal's total is below 100 again
C8_Witness ==
    /\ "Igris (100 Total)" \in BadgeSet(data)
    /\ out.cmd = "log" /\ out.status = "ok" /\ out.amount_delta < 0
    /\ out.shown[out.name].total = 99

\* C9: after a positive-delta log on goal G the badges hold every badge
\* whose predicate is true of the document the log leaves: the first-step
\* badge if G's total is > 0, the 100/500/1000/5000 badges for each
\* threshold the total reaches, the 3/7/30-day badges for each threshold
\* G's current streak reaches, the multi-goal badge if 3 or more goals are
\* not archived; and the log adds no badge whose predicate is false.
C9_BadgesMatchPredicates ==
    [][(LogStep /\ out'.amount_delta > 0) =>
          LET st == calculate_stats(data'[out'.name].history, today)
              due == {<<"The Player (Awakened)", st.total > 0>>,
                      <<"Igris (100 Total)", st.total >= 100>>,
                      <<"Tank (500 Total)", st.total >= 500>>,
                      <<"Beru (1K Total)", st.total >= 1000>>,
                      <<"Bellion (5K Total)", st.total >= 5000>>,
                      <<"Heating Up (3 Day Streak)", st.cur >= 3>>,
                      <<"False Ranker (7 Day Streak)", st.cur >= 7>>,
                      <<"Monarch (30 Day Streak)", st.cur >= 30>>,
                      <<"Necromancer (3 Active Goals)",
                        Cardinality(ActiveGoals(data')) >= 3>>}
          IN  \A table \in {due} :
                 /\ \A p \in table : p[2] => p[1] \in BadgeSet(data')
                 /\ \A b \in BadgeSet(data') \ BadgeSet(data) :
                       <<b, TRUE>> \in table]_vars

\* the log that brings goal a to a streak of 30 days, with three active goals
C9_Witness ==
    /\ out.cmd = "log" /\ out.status = "ok" /\ out.amount_delta > 0
    /\ out.shown[out.name].cur_streak = 30
    /\ BadgeSet(data) = {"The Player (Awakened)", "Heating Up (3 Day Streak)",
                         "False Ranker (7 Day Streak)", "Monarch (30 Day Streak)",
                         "Necromancer (3 Active Goals)"}

----------------------------------------------------------------------------
(* Streaks of one goal over every history the log command can file *)

\* the date texts cmd_log accepts for the days 1..MaxDay, both spellings
StatsKeys == {Str(d) : d \in 1..MaxDay} \cup {Short(d) : d \in 1..MaxDay}

\* the keys in the order they are logged
RECURSIVE KeyOrder(_)
KeyOrder(keys) ==
    IF keys = {} THEN <<>>
    ELSE LET k == CHOOSE x \in keys :
                     \A y \in keys : x.day < y.day \/ (x.day = y.day /\ (x.form = "iso" \/ y = x))
         IN  <<k>> \o KeyOrder(keys \ {k})

\* goal a, then one log per key of v, with the sign v gives it
HistoryScript(v) ==
    <<Add(<<"a">>, "")>> \o
    [i \in 1..Cardinality(DOMAIN v) |->
        Log(<<"a">>, IF v[KeyOrder(DOMAIN v)[i]] > 0 THEN Plus1 ELSE Minus1,
            KeyOrder(DOMAIN v)[i])]

StatsScripts ==
    {HistoryScript(v) : v \in UNION {[K -> {-1, 1}] : K \in SUBSET StatsKeys}}

InitStats == StartsAfter(StatsScripts)

NextStats ==
    \/ \E a \in {Plus1, Minus1} :
          CmdLog([name |-> <<"a">>, amount |-> a, date |-> NoDate])
    \/ CmdShow([name |-> <<"a">>])
    \/ Tick

SpecStats == InitStats /\ [][NextStats]_vars

\* C10: on every history the log command can file and every today, the
\* longest streak calculate_stats returns is at least the current streak
\* it returns.
C10_LongestAtLeastCurrent ==
    (out.cmd \in {"show", "log"} /\ out.status = "ok") =>
        \A k \in DOMAIN out.shown :
            out.shown[k].max_streak >= out.shown[k].cur_streak

\* the calendar days with a value > 0 under some key
PosDays(h) == {Strptime(k) : k \in {x \in DOMAIN h : h[x] > 0}}

\* the length of the run of consecutive days of S that ends at day d
RunEndingAt(S, d) ==
    Cardinality({n \in 1..Cardinality(S) : \A i \in 0..(n - 1) : (d - i) \in S})

\* the run ending today, else the run ending yesterday
RunCurrent(S, t) ==
    IF t \in S THEN RunEndingAt(S, t) ELSE RunEndingAt(S, t - 1)

\* the longest run of consecutive days of S
RunLongest(S) ==
    IF S = {} THEN 0
    ELSE CHOOSE n \in 1..Cardinality(S) :
            /\ \E d \in S : RunEndingAt(S, d) = n
            /\ \A d \in S : RunEndingAt(S, d) <= n

HistoryOf(k) == data[k].history

\* C11: the streaks calculate_stats returns count only the days whose
\* stored value is > 0: the current streak is the length of the maximal run
\* of consecutive positive calendar days ending today, or ending yesterday
\* when today is not positive, 0 when neither is positive; the longest
\* streak is the length of the longest run of consecutive positive calendar
\* days in the history, 0 if there is none.
C11_StreaksAreRuns ==
    (out.cmd \in {"show", "log"} /\ out.status = "ok") =>
        \A k \in DOMAIN out.shown :
            /\ out.shown[k].cur_streak = RunCurrent(PosDays(HistoryOf(k)), today)
            /\ out.shown[k].max_streak = RunLongest(PosDays(HistoryOf(k)))

\* the same on the histories whose keys are all spelled as str(date) spells
\* them
C11_IsoSpelling ==
    (out.cmd \in {"show", "log"} /\ out.status = "ok") =>
        \A k \in DOMAIN out.shown :
            (\A x \in DOMAIN HistoryOf(k) : x.form = "iso") =>
                /\ out.shown[k].cur_streak = RunCurrent(PosDays(HistoryOf(k)), today)
                /\ out.shown[k].max_streak = RunLongest(PosDays(HistoryOf(k)))

\* C12: when the current streak of a history H ends yesterday and a positive
\* entry is stored for today, the current streak of the extended history is
\* the current streak of H plus 1; and a streak that ends today is, once
\* midnight has passed on a history without a positive entry for the new
\* day, the same streak ending yesterday.
C12_StreakGrowsByOne ==
    /\ [][(/\ LogStep
           /\ out'.log_date = Str(today)
           /\ out'.new_amount > 0
           /\ today \notin PosDays(data[out'.name].history)
           /\ (today - 1) \in PosDays(data[out'.name].history))
          => out'.shown[out'.name].cur_streak =
                calculate_stats(data[out'.name].history, today).cur + 1]_vars
    /\ [][(today' = today + 1) =>
             \A k \in DOMAIN data :
                (/\ IsGoalKey(k)
                 /\ today \in PosDays(data[k].history)
                 /\ today' \notin PosDays(data[k].history)) =>
                    calculate_stats(data'[k].history, today').cur =
                        calculate_stats(data[k].history, today).cur]_vars

\* today's log made a streak of 2 days, ended yesterday, a streak of 3
C12_Witness ==
    /\ out.cmd = "log" /\ out.status = "ok"
    /\ out.log_date = Str(today) /\ out.amount_delta = 1 /\ out.new_amount = 1
    /\ Short(today) \notin DOMAIN data[out.name].history
    /\ out.shown[out.name].cur_streak = 3

----------------------------------------------------------------------------
(* The heatmap of one goal, drawn on each day of a week over histories    *)
(* with entries around the week boundaries                                *)

\* the logs that may have been made: the date and the amount typed
WeekEntries ==
    <<Log(<<"a">>, <<"1">>, Str(0 - 8)),
      Log(<<"a">>, <<"2">>, Str(0 - 7)),
      Log(<<"a">>, <<"-", "4">>, Str(0 - 1)),
      Log(<<"a">>, <<"8">>, Str(0)),
      Log(<<"a">>, <<"1", "6">>, Str(6)),
      Log(<<"a">>, <<"3", "2">>, Str(HeatmapDays)),
      Log(<<"a">>, <<"6", "4">>, Short(3))>>

RECURSIVE Pick(_, _, _)
\* the entries of seq at the positions in keep, from position i on
Pick(seq, keep, i) ==
    IF i > Len(seq) THEN <<>>
    ELSE (IF i \in keep THEN <<seq[i]>> ELSE <<>>) \o Pick(seq, keep, i + 1)

\* goal a, some of the logs, then the nights up to day t
WeekScript(keep, t) ==
    <<Add(<<"a">>, "")>> \o Pick(WeekEntries, keep, 1)
    \o [i \in 1..(t - 1) |-> Midnight]

WeekScripts ==
    {WeekScript(keep, t) : keep \in SUBSET (1..Len(WeekEntries)), t \in 1..HeatmapDays}

InitHeatmap == StartsAfter(WeekScripts)

\* show <name>: the stats bar and the grid of the goal
PrintHeatmap(name) ==
    /\ steps < 1
    /\ name \in DOMAIN data /\ IsGoalKey(name)
    /\ out' = [cmd |-> "print_heatmap", status |-> "ok", name |-> name,
               bar |-> print_heatmap(data[name], today),
               start_date |-> StartDate(today),
               rows |-> Grid(data[name].history, today)]
    /\ steps' = steps + 1
    /\ UNCHANGED <<data, today>>

NextHeatmap == PrintHeatmap(<<"a">>)

SpecHeatmap == InitHeatmap /\ [][NextHeatmap]_vars

\* day 7 is a Sunday: the last Sunday at or before day d
SundayAtOrBefore(d) == CHOOSE x \in (d - 6)..d : x % 7 = 0

RECURSIVE SumOver(_, _)
\* the sum of the values stored for the keys in keys
SumOver(h, keys) ==
    IF keys = {} THEN 0
    ELSE LET k == CHOOSE x \in keys : TRUE
         IN  h[k] + SumOver(h, keys \ {k})

\* what the history holds for the 7 days from day first on
StoredInWeek(h, first) ==
    SumOver(h, {k \in DOMAIN h : Strptime(k) \in first..(first + 6)})

\* C18: calculate_weekly_performance returns (thisWeek, lastWeek): thisWeek
\* is the sum of the stored values, of any sign, of the 7 days that start at
\* the last Sunday at or before today, lastWeek the same sum for the 7 days
\* before that Sunday; both are functions of the history alone.
C18_WeekTotals ==
    out.cmd = "print_heatmap" =>
        /\ out.bar.this_week =
              StoredInWeek(HistoryOf(out.name), SundayAtOrBefore(today))
        /\ out.bar.last_week =
              StoredInWeek(HistoryOf(out.name), SundayAtOrBefore(today) - 7)

\* the same on the histories whose keys are all spelled as str(date) spells
\* them
C18_IsoSpelling ==
    (/\ out.cmd = "print_heatmap"
     /\ \A x \in DOMAIN HistoryOf(out.name) : x.form = "iso") =>
        /\ out.bar.this_week =
              StoredInWeek(HistoryOf(out.name), SundayAtOrBefore(today))
        /\ out.bar.last_week =
              StoredInWeek(HistoryOf(out.name), SundayAtOrBefore(today) - 7)

\* the dates of the cells of a row, in the order drawn
RowDates(row) == [i \in 1..Len(row) |-> row[i][1]]

\* the dates first, first + 7, ... that are at most last, ascending
EveryWeekFrom(first, last) ==
    [i \in 1..Cardinality({k \in 0..WEEKS_TO_SHOW : first + 7 * k <= last}) |->
        first + 7 * (i - 1)]

\* what C19 says of the grid but for the number of cells: the start is the
\* last Sunday at or before today - 52 weeks; row r holds, oldest first, the
\* cells dated start + r + 7k, k = 0..52, that are not after today; today's
\* cell is the last of its row
GridShape ==
    /\ out.start_date = SundayAtOrBefore(today - 7 * WEEKS_TO_SHOW)
    /\ \A r \in 0..6 :
          /\ RowDates(out.rows[r]) = EveryWeekFrom(out.start_date + r, today)
          /\ \A i \in 1..Len(out.rows[r]) : out.rows[r][i][1] <= today
    /\ LET row == out.rows[today % 7] IN row[Len(row)][1] = today

\* C19 as stated: the grid has that shape and every row holds 53 cells.
C19_Original ==
    out.cmd = "print_heatmap" =>
        /\ GridShape
        /\ \A r \in 0..6 : Len(out.rows[r]) = WEEKS_TO_SHOW + 1

\* C19 as amended: the grid has that shape; the rows of the weekdays up to
\* today's (Sunday being the first) hold 53 cells and the rows of the
\* weekdays after today's hold 52, their 53rd cell being after today.
C19_GridGeometry ==
    out.cmd = "print_heatmap" =>
        /\ GridShape
        /\ \A r \in 0..6 :
              Len(out.rows[r]) = IF r <= today % 7 THEN WEEKS_TO_SHOW + 1
                                 ELSE WEEKS_TO_SHOW

\* a Wednesday: the row of Wednesday ends with today, the row of Thursday
\* is one cell shorter
C19_Witness ==
    /\ out.cmd = "print_heatmap" /\ today = 3
    /\ Len(out.rows[3]) = 53 /\ out.rows[3][53][1] = 3
    /\ Len(out.rows[4]) = 52 /\ out.rows[4][52][1] = -3

----------------------------------------------------------------------------
(* get_color called on its own: two calls in a row, as for two cells of a *)
(* grid                                                                   *)

InitColor ==
    /\ data = EmptyStore
    /\ today = 1
    /\ out = NoOut
    /\ steps = 0

CallGetColor(count, max_count) ==
    /\ steps < 2
    /\ out' = [cmd |-> "get_color", status |-> "ok", count |-> count,
               max_count |-> max_count, bucket |-> get_color(count, max_count),
               before |-> out]
    /\ steps' = steps + 1
    /\ UNCHANGED <<data, today>>

NextColor ==
    \E count \in (0 - MaxCount)..MaxCount, max_count \in 0..MaxCount :
        CallGetColor(count, max_count)

SpecColor == InitColor /\ [][NextColor]_vars

\* C13: for a fixed maximum and two counts c1 < c2, of any sign, the bucket
\* of c1 (empty = 0, L1..L4 = 1..4) is at most the bucket of c2.
C13_BucketsMonotonic ==
    (/\ out.cmd = "get_color" /\ out.before.cmd = "get_color"
     /\ out.before.max_count = out.max_count
     /\ out.before.count < out.count)
    => out.before.bucket <= out.bucket

\* the same for two counts that are not negative
C13_NonNegative ==
    (/\ out.cmd = "get_color" /\ out.before.cmd = "get_color"
     /\ out.before.max_count = out.max_count
     /\ 0 <= out.before.count /\ out.before.count < out.count)
    => out.before.bucket <= out.bucket

\* C14 as stated: a non-zero count that is exactly 25%, 50% or 75% of
\* max(1, max_count) gets the lower bucket, 1, 2 or 3, and count 0 always
\* gets the empty bucket.
C14_Original ==
    out.cmd = "get_color" =>
        LET m == IF out.max_count > 1 THEN out.max_count ELSE 1
        IN  /\ out.count = 0 => out.bucket = 0
            /\ (out.count # 0 /\ 4 * out.count = m) => out.bucket = 1
            /\ (out.count # 0 /\ 2 * out.count = m) => out.bucket = 2
            /\ (out.count # 0 /\ 4 * out.count = 3 * m) => out.bucket = 3

\* C14 as amended: a non-zero count that is exactly 25%, 50% or 75% of
\* max(1, max_count) gets the upper of the two buckets the threshold
\* separates, 2, 3 or 4 (the tests are "percentage < threshold"), and count
\* 0 always gets the empty bucket.
C14_ThresholdGoesUp ==
    out.cmd = "get_color" =>
        LET m == IF out.max_count > 1 THEN out.max_count ELSE 1
        IN  /\ out.count = 0 => out.bucket = 0
            /\ (out.count # 0 /\ 4 * out.count = m) => out.bucket = 2
            /\ (out.count # 0 /\ 2 * out.count = m) => out.bucket = 3
            /\ (out.count # 0 /\ 4 * out.count = 3 * m) => out.bucket = 4

\* a count at exactly 25% of the maximum after one at exactly 75%
C14_Witness ==
    /\ out.cmd = "get_color" /\ out.before.cmd = "get_color"
    /\ out.max_count = 8 /\ out.count = 2 /\ out.bucket = 2
    /\ out.before.max_count = 8 /\ out.before.count = 6 /\ out.before.bucket = 4

----------------------------------------------------------------------------
(* Sessions with arguments the commands refuse *)

\* goal a with a stat and one log, goal b
RejectScript ==
    <<Add(<<"a">>, "str"), Add(<<"b">>, ""), Log(<<"a">>, Plus1, NoDate)>>

InitReject == StartsAfter({<<>>, RejectScript})

\* an existing goal, a goal that does not exist, the profile's own key
RejectNames == {<<"a">>, <<"z">>, USER}

\* an integer and two texts int() refuses
RejectAmounts == {Plus1, <<"x">>, <<"+">>}

RejectDates == {NoDate, BadDate, Short(1)}

\* a valid code, no code, a code outside VALID_STATS
RejectStats == {"int", "", "luk"}

LogArgs == [name : RejectNames, amount : RejectAmounts, date : RejectDates]

AddArgs == [name : RejectNames, unit : {""}, stat : RejectStats]

NameArgs == [name : RejectNames, confirm : {<<"y">>}]

NextReject ==
    \/ \E args \in AddArgs : CmdAdd(args)
    \/ \E args \in LogArgs : CmdLog(args)
    \/ \E args \in NameArgs : CmdDelete(args)
    \/ \E args \in NameArgs : CmdArchive(args)
    \/ \E args \in NameArgs : CmdRestore(args)
    \/ Tick

SpecReject == InitReject /\ [][NextReject]_vars

\* the goal named does not exist or the name has the reserved prefix
NoSuchGoal(n, d) == n \notin DOMAIN d \/ n[1] = "_"

\* C15: a command that is refused changes nothing in the document: log with
\* an amount that is no integer or a date that is no date, log, archive,
\* restore and delete on a name that is no goal's or that starts with "_",
\* add with a name that starts with "_" or with a stat code that is not
\* valid, are all refused, and the step that refuses leaves every goal
\* record and the profile as they were.
C15_RejectedChangesNothing ==
    /\ [](/\ \A args \in LogArgs :
                (\/ NoSuchGoal(args.name, data)
                 \/ args.amount \in {<<"x">>, <<"+">>}
                 \/ args.date = BadDate)
                => cmd_log(args, data, today).out.status
                      \in {"not_found", "invalid_date", "invalid_amount"}
          /\ \A args \in AddArgs :
                (args.name[1] = "_" \/ args.stat = "luk")
                => cmd_add(args, data, today).out.status
                      \in {"reserved", "invalid_stat"}
          /\ \A args \in NameArgs :
                NoSuchGoal(args.name, data)
                => /\ cmd_delete(args, data).out.status = "not_found"
                   /\ cmd_archive(args, data).out.status = "not_found"
                   /\ cmd_restore(args, data).out.status = "not_found")
    /\ [][(/\ steps' = steps + 1
           /\ out'.status \in {"not_found", "invalid_date", "invalid_amount",
                               "reserved", "invalid_stat"})
          => data' = data]_vars

\* a log with a date that is no date was refused on a store with history
C15_Witness ==
    /\ out.cmd = "log" /\ out.status = "invalid_date"
    /\ <<"a">> \in DOMAIN data /\ DOMAIN data[<<"a">>].history # {}
    /\ data[USER].xp > 0

----------------------------------------------------------------------------
(* Sessions whose commands name goals in upper case and keys with the *)
(* reserved prefix                                                    *)

\* "A", "_user", "_User", "_a"
KeyNames ==
    {<<"A">>, USER, <<"_", "U", "s", "e", "r">>, <<"_", "a">>}

InitKeys == StartsAfter({<<>>, RejectScript})

NextKeys ==
    \/ \E n \in KeyNames : CmdAdd([name |-> n, unit |-> "", stat |-> ""])
    \/ \E n \in KeyNames : CmdLog([name |-> n, amount |-> Plus1, date |-> NoDate])
    \/ \E n \in KeyNames : CmdDelete([name |-> n, confirm |-> <<"y">>])
    \/ \E n \in KeyNames : CmdArchive([name |-> n])
    \/ \E n \in KeyNames : CmdRestore([name |-> n])
    \/ Tick

SpecKeys == InitKeys /\ [][NextKeys]_vars

\* no letter of the key is an upper-case letter
IsLowerCase(k) ==
    \A i \in 1..Len(k) : k[i] \notin {"A", "B", "C", "D", "E", "U"}

\* C21: the document always holds the "_user" record, and it is the only
\* record under a key that starts with "_": every other key is lower-case
\* and does not start with "_".  Whatever name is passed, add, log, archive,
\* restore and delete called with a name that starts with "_" change
\* nothing, so no command creates, archives or deletes a record under such
\* a key, and the "_user" record never gets the fields of a goal.
C21_ReservedKeys ==
    [](/\ USER \in DOMAIN data
       /\ DOMAIN data[USER] = DOMAIN default_user
       /\ \A k \in DOMAIN data \ {USER} : k[1] # "_" /\ IsLowerCase(k)
       /\ \A n \in KeyNames :
             n[1] = "_" =>
                /\ cmd_add([name |-> n, unit |-> "", stat |-> ""], data, today).data = data
                /\ cmd_log([name |-> n, amount |-> Plus1, date |-> NoDate], data, today).data = data
                /\ cmd_delete([name |-> n, confirm |-> <<"y">>], data).data = data
                /\ cmd_archive([name |-> n], data).data = data
                /\ cmd_restore([name |-> n], data).data = data)

\* delete "_User" was refused; the goal added as "A" is stored as "a"
C21_Witness ==
    /\ out.cmd = "delete" /\ out.status = "not_found"
    /\ DOMAIN data = {USER, <<"a">>}
    /\ DOMAIN data[<<"a">>].history = {}

----------------------------------------------------------------------------
(* Sessions on a store with archived goals: five goals, c, d and e *)
(* archived, a and b logged today                                  *)

ArchiveScript ==
    <<Add(<<"a">>, ""), Add(<<"b">>, ""), Add(<<"c">>, "int"),
      Add(<<"d">>, ""), Add(<<"e">>, ""),
      Archive(<<"c">>), Archive(<<"d">>), Archive(<<"e">>),
      Log(<<"a">>, Plus1, NoDate), Log(<<"b">>, Plus1, NoDate)>>

\* that store, and the same after a log on the archived c, today or yesterday
ArchiveScripts ==
    {ArchiveScript,
     ArchiveScript \o <<Log(<<"c">>, Plus1, NoDate)>>,
     ArchiveScript \o <<Log(<<"c">>, Plus1, Str(0))>>}

InitArchive == StartsAfter(ArchiveScripts)

ArchiveNames == {<<"a">>, <<"c">>, <<"d">>}

NextArchive ==
    \/ \E n \in ArchiveNames, a \in {Plus1, Minus1} :
          CmdLog([name |-> n, amount |-> a, date |-> NoDate])
    \/ \E n \in ArchiveNames : CmdArchive([name |-> n])
    \/ \E n \in ArchiveNames : CmdRestore([name |-> n])
    \/ Tick

SpecArchive == InitArchive /\ [][NextArchive]_vars

\* the goals of d that are not archived
NotArchived(d) == {k \in DOMAIN d \ {USER} : ~d[k].archived}

\* the goals, archived or not, with a positive value under str(t)
LoggedOn(d, t) ==
    {k \in DOMAIN d \ {USER} : Str(t) \in DOMAIN d[k].history /\ d[k].history[Str(t)] > 0}

\* C24: a log on an archived goal is accepted and rewarded as on any goal:
\* the value is stored, the base XP and the streak bonus are paid, the
\* goal's stat goes up, the badges of its total and streak are given.  A
\* goal that is archived is not counted for the daily quest (the bonus is
\* paid only when exactly 4 goals that are not archived are positive today)
\* nor for the multi-goal badge (given only with 3 or more goals that are
\* not archived).  archive and restore leave every history as it was.
C24_ArchivedGoals ==
    /\ [][(LogStep /\ data[out'.name].archived) =>
             /\ data'[out'.name].history[out'.log_date] = out'.new_amount
             /\ data'[out'.name].archived
             /\ out'.amount_delta > 0 =>
                   LET st == calculate_stats(data'[out'.name].history, today)
                   IN  /\ out'.xp_gain >= 10
                       /\ out'.xp_gain = 10 + out'.streak_bonus + out'.quest_bonus
                       /\ out'.streak_bonus =
                             (IF st.cur > 1 THEN (IF 2 * st.cur < 20 THEN 2 * st.cur ELSE 20) ELSE 0)
                       /\ TotalXp(data'[USER]) = TotalXp(data[USER]) + out'.xp_gain
                       /\ data[out'.name].stat # "" =>
                             data'[USER].stats[data[out'.name].stat] =
                                data[USER].stats[data[out'.name].stat] + 1
                       /\ st.total > 0 => InSeq("The Player (Awakened)", data'[USER].badges)
                       /\ st.cur >= 3 =>
                             InSeq("Heating Up (3 Day Streak)", data'[USER].badges)]_vars
    /\ [][(LogStep /\ out'.amount_delta > 0) =>
             /\ out'.quest_bonus = 50 =>
                   Cardinality(LoggedOn(data', today) \cap NotArchived(data')) = 4
             /\ (/\ InSeq("Necromancer (3 Active Goals)", data'[USER].badges)
                 /\ ~InSeq("Necromancer (3 Active Goals)", data[USER].badges))
                => Cardinality(NotArchived(data')) >= 3]_vars
    /\ [][(steps' = steps + 1 /\ out'.cmd \in {"archive", "restore"}) =>
             /\ DOMAIN data' = DOMAIN data
             /\ \A k \in DOMAIN data \ {USER} : data'[k].history = data[k].history]_vars

\* the archived goal d is logged as the fourth goal positive today: the log
\* is paid its 10 XP, but neither the quest bonus nor the multi-goal badge
\* is given, only two of the four goals being active
C24_Witness ==
    /\ out.cmd = "log" /\ out.status = "ok" /\ out.name = <<"d">>
    /\ data[<<"d">>].archived
    /\ out.amount_delta = 1 /\ out.xp_gain = 10 /\ out.quest_bonus = 0
    /\ Cardinality(LoggedOn(data, today)) = 4
    /\ Cardinality(NotArchived(data)) = 2
    /\ DOMAIN data[USER].daily_quests = {}
    /\ ~InSeq("Necromancer (3 Active Goals)", data[USER].badges)

----------------------------------------------------------------------------
(* add_xp called on its own *)

InitAddXp ==
    /\ \E l \in 1..MaxLevel0, x \in 0..MaxXp0 :
          data = [k \in {USER} |-> [default_user EXCEPT !.level = l, !.xp = x]]
    /\ today = 1
    /\ out = NoOut
    /\ steps = 0

CallAddXp(amount) ==
    /\ steps = 0
    /\ LET r == add_xp(data, amount)
       IN  /\ data' = r.data
           /\ out' = [cmd |-> "add_xp", status |-> "ok", amount |-> amount,
                      before |-> data[USER], leveled_up |-> r.leveled_up]
    /\ steps' = steps + 1
    /\ UNCHANGED today

NextAddXp == \E amount \in 0..MaxAmount : CallAddXp(amount)

SpecAddXp == InitAddXp /\ [][NextAddXp]_vars

\* C3 as stated: add_xp with amount 250 on a profile with level 1 and xp 0
\* leaves the profile at level 3 with xp 50.
C3_Original ==
    (out.cmd = "add_xp" /\ out.amount = 250
        /\ out.before.level = 1 /\ out.before.xp = 0)
    => (data[USER].level = 3 /\ data[USER].xp = 50)

\* C3 as amended: add_xp with amount 250 on a profile with level 1 and xp 0
\* leaves the profile at level 2 with xp 150 (the threshold 100 of level 1 is
\* consumed; the 150 left do not reach the threshold 200 of level 2).
C3_Add250 ==
    (out.cmd = "add_xp" /\ out.amount = 250
        /\ out.before.level = 1 /\ out.before.xp = 0)
    => (data[USER].level = 2 /\ data[USER].xp = 150)

C3_Witness ==
    /\ out.cmd = "add_xp" /\ out.amount = 250
    /\ out.before.level = 1 /\ out.before.xp = 0
    /\ out.leveled_up

\* C4: add_xp loses and invents no XP: the thresholds consumed plus xp grow
\* by exactly the amount, the loop stops at the first level whose threshold
\* the remaining xp does not reach, every increment of the level paid its
\* threshold, and the return value is true exactly when the level increased.
C4_XpConserved ==
    out.cmd = "add_xp" =>
        /\ TotalXp(data[USER]) = TotalXp(out.before) + out.amount
        /\ data[USER].level >= out.before.level
        /\ data[USER].xp >= 0
        /\ data[USER].xp < data[USER].level * 100
        /\ out.leveled_up = (data[USER].level > out.before.level)
        /\ [data[USER] EXCEPT !.xp = 0, !.level = 1]
              = [out.before EXCEPT !.xp = 0, !.level = 1]

C4_Witness ==
    /\ out.cmd = "add_xp"
    /\ out.before.xp >= out.before.level * 100
    /\ data[USER].level = out.before.level + 2
    /\ data[USER].xp > 0

====
